---- MODULE Spec2Model ----
(***************************************************************************)
(* Model of the keyword classification pipeline of app.py:                 *)
(* KeywordClassificationAgent.load_data, process_file's instruction        *)
(* patching, classify_keywords_to_excel (batch loop, LLM call, fallback)   *)
(* and _parse_markdown_to_data.                                            *)
(*                                                                         *)
(* Python strings are modelled as sequences of one-character strings, so   *)
(* that split, strip, lower, count and startswith are computed character   *)
(* by character as CPython computes them.                                  *)
(***************************************************************************)
EXTENDS Integers, Sequences, FiniteSets, TLC

VARIABLES
    pc,               \* position of the job / of the parser run
    keywords,         \* self.keywords
    json_columns,     \* self.json_data["columns"]
    columns,          \* self.columns
    batch_size,       \* batch_size argument of classify_keywords_to_excel
    progress_callback,\* "none" | "supplied": the progress_callback argument
    i,                \* loop variable of `for i in range(0, total, batch_size)`
    all_data,         \* all_data
    llm_calls,        \* prompts handed to self.model.generate_content, in order,
                      \* each with the batch_num of the iteration that sent it
    progress_log,     \* argument triples the observer was invoked with
    batch_log,        \* rows appended by each finished batch, in order
    written,          \* rows handed to _save_data_to_excel (<<>> before)
    markdown_result,  \* parser run: the response text
    expected_keywords,\* parser run: expected_keywords
    expected_num_columns, \* parser run: expected_num_columns
    data_rows,        \* parser run: the rows returned
    df,               \* loader run: the table pd.read_csv / pd.read_excel returned
    brands            \* self.json_data["brands"]

vars == <<pc, keywords, json_columns, columns, batch_size, progress_callback, i,
          all_data, llm_calls, progress_log, batch_log, written,
          markdown_result, expected_keywords, expected_num_columns,
          data_rows, df, brands>>

engineVars == <<keywords, json_columns, columns, batch_size, progress_callback, i,
                all_data, llm_calls, progress_log, batch_log, written>>

parserVars == <<markdown_result, expected_keywords, expected_num_columns,
                data_rows>>

fileVars == <<df, brands>>

----------------------------------------------------------------------------
(* Bounds *)

MaxKeywords == 3

MaxBatchSize == 2

MaxDataLines == 2

MaxRows == 2

----------------------------------------------------------------------------
(* Python str primitives on sequences of characters *)

NL == "\n"

PIPE == "|"

Whitespace == {" ", "\t", "\n", "\r"}

Min(a, b) == IF a < b THEN a ELSE b

\* str.lower() on one character (the model's texts are ASCII)
LowerChar(c) ==
    CASE c = "A" -> "a" [] c = "B" -> "b" [] c = "C" -> "c" [] c = "D" -> "d"
      [] c = "E" -> "e" [] c = "F" -> "f" [] c = "G" -> "g" [] c = "H" -> "h"
      [] c = "I" -> "i" [] c = "J" -> "j" [] c = "K" -> "k" [] c = "L" -> "l"
      [] c = "M" -> "m" [] c = "N" -> "n" [] c = "O" -> "o" [] c = "P" -> "p"
      [] c = "Q" -> "q" [] c = "R" -> "r" [] c = "S" -> "s" [] c = "T" -> "t"
      [] c = "U" -> "u" [] c = "V" -> "v" [] c = "W" -> "w" [] c = "X" -> "x"
      [] c = "Y" -> "y" [] c = "Z" -> "z"
      [] OTHER -> c

\* str.lower()
Lower(s) == [k \in 1..Len(s) |-> LowerChar(s[k])]

RECURSIVE LStrip(_)
LStrip(s) == IF s # <<>> /\ Head(s) \in Whitespace THEN LStrip(Tail(s)) ELSE s

RECURSIVE RStrip(_)
RStrip(s) ==
    IF s # <<>> /\ s[Len(s)] \in Whitespace
    THEN RStrip(SubSeq(s, 1, Len(s) - 1)) ELSE s

\* str.strip()
Strip(s) == RStrip(LStrip(s))

\* str.split(sep) for a one-character separator: always at least one piece
RECURSIVE SplitFrom(_, _, _, _)
SplitFrom(s, sep, k, cur) ==
    IF k > Len(s) THEN <<cur>>
    ELSE IF s[k] = sep THEN <<cur>> \o SplitFrom(s, sep, k + 1, <<>>)
    ELSE SplitFrom(s, sep, k + 1, Append(cur, s[k]))

Split(s, sep) == SplitFrom(s, sep, 1, <<>>)

\* str.count(c) for a one-character argument
Count(s, c) == Cardinality({k \in 1..Len(s) : s[k] = c})

\* str.startswith(prefix)
StartsWith(s, prefix) ==
    Len(s) >= Len(prefix) /\ SubSeq(s, 1, Len(prefix)) = prefix

\* `c in s` for a one-character c
Contains(s, c) == \E k \in 1..Len(s) : s[k] = c

\* str.replace(c, '') for a one-character c
RemoveChar(s, c) == SelectSeq(s, LAMBDA x : x # c)

\* Python slice seq[1:-1]
Slice1ToLast(seq) == IF Len(seq) <= 2 THEN <<>> ELSE SubSeq(seq, 2, Len(seq) - 1)

\* Python slice seq[a:b] with 0 <= a, 0 <= b (0-based, end exclusive, clamped)
Slice(seq, a, b) == SubSeq(seq, Min(a, Len(seq)) + 1, Min(b, Len(seq)))

\* sep.join(parts)
RECURSIVE Join(_, _)
Join(parts, sep) ==
    IF parts = <<>> THEN <<>>
    ELSE IF Len(parts) = 1 THEN parts[1]
    ELSE parts[1] \o sep \o Join(Tail(parts), sep)

----------------------------------------------------------------------------
(* _parse_markdown_to_data *)

\* normalized_expected = {str(k).strip().lower() for k in expected_keywords}
NormalizedExpected(exp_keywords) ==
    {Lower(Strip(exp_keywords[k])) : k \in 1..Len(exp_keywords)}

\* lines = [line.strip() for line in markdown_result.split('\n') if '|' in line]
TableLines(text) ==
    LET raw == SelectSeq(Split(text, NL), LAMBDA line : Contains(line, PIPE))
    IN  [k \in 1..Len(raw) |-> Strip(raw[k])]

\* the condition under which a line is skipped as a separator/decoration row
IsSeparatorLine(line) ==
    \/ 2 * Count(line, "-") > Len(line)
    \/ StartsWith(line, <<"|", "-", "-">>)
    \/ \A k \in 1..Len(RemoveChar(line, PIPE)) :
           RemoveChar(line, PIPE)[k] \in {"|", "-", ":", " "}

FilteredLines(text) ==
    SelectSeq(TableLines(text), LAMBDA line : ~IsSeparatorLine(line))

\* [c.strip() for c in line.split('|')[1:-1]]
LineCells(line) ==
    LET parts == Slice1ToLast(Split(line, PIPE))
    IN  [k \in 1..Len(parts) |-> Strip(parts[k])]

HeaderCount(filtered_lines, exp_num_columns) ==
    LET header_cells == LineCells(filtered_lines[1])
    IN  IF header_cells # <<>> THEN Len(header_cells) ELSE exp_num_columns

\* the three `continue` tests of the row loop
RowAccepted(cells, header_count, normalized_expected) ==
    /\ Len(cells) = header_count
    /\ cells # <<>>
    /\ Lower(Strip(cells[1])) \in normalized_expected

\* rows collected with one row per keyword, a later row replacing an earlier one
RECURSIVE CollectRowsDedup(_, _, _)
CollectRowsDedup(lines, header_count, normalized_expected) ==
    IF lines = <<>> THEN <<>>
    ELSE LET cells == LineCells(Head(lines))
             rest == CollectRowsDedup(Tail(lines), header_count, normalized_expected)
         IN  IF /\ RowAccepted(cells, header_count, normalized_expected)
                /\ ~\E r \in 1..Len(rest) :
                       Lower(Strip(rest[r][1])) = Lower(Strip(cells[1]))
             THEN <<cells>> \o rest ELSE rest

RECURSIVE CollectRows(_, _, _)
CollectRows(lines, header_count, normalized_expected) ==
    IF lines = <<>> THEN <<>>
    ELSE LET cells == LineCells(Head(lines))
             rest == CollectRows(Tail(lines), header_count, normalized_expected)
         IN  IF RowAccepted(cells, header_count, normalized_expected)
             THEN <<cells>> \o rest ELSE rest

ParseMarkdownToData(text, exp_keywords, exp_num_columns) ==
    LET filtered_lines == FilteredLines(text)
    IN  IF filtered_lines = <<>> THEN <<>>
        ELSE CollectRows(Tail(filtered_lines),
                         HeaderCount(filtered_lines, exp_num_columns),
                         NormalizedExpected(exp_keywords))

----------------------------------------------------------------------------
(* Data of the classification request *)

foo == <<"f", "o", "o">>

baz == <<"b", "a", "z">>

bar == <<"b", "a", "r">>

KeywordPool == {foo, baz}

RECURSIVE SeqsUpTo(_, _)
SeqsUpTo(S, n) ==
    IF n = 0 THEN {<<>>}
    ELSE LET shorter == SeqsUpTo(S, n - 1)
         IN  shorter \cup {Append(q, x) : q \in {r \in shorter : Len(r) = n - 1}, x \in S}

\* column specs as convert_excel_to_json builds them: a tagged column has the
\* key "tags", an instruction-only column the key "instructions" (empty)
TaggedColumn == [name |-> "Type", tags |-> {"X", "Y"}]

InstructionColumn == [name |-> "Intent", instructions |-> <<>>]

ColumnSpecs ==
    {<<>>, <<TaggedColumn>>, <<InstructionColumn>>, <<TaggedColumn, InstructionColumn>>}

NoField == "None"

\* values request.form can carry for instruction_col_name_{i} / instruction_{i}
FormNames == {NoField, "Type", "Intent"}

FormInstructions == {<<>>, <<" ">>, <<" ", "g", "o", " ">>}

FormFields == [name : FormNames, instruction : FormInstructions]

----------------------------------------------------------------------------
(* process_file: patching agent.columns from the form *)

\* one iteration of the loop over enumerate(agent.columns)
UpdatedColumn(col, field) ==
    LET provided_instruction == Strip(field.instruction)
    IN  IF "tags" \notin DOMAIN col
        THEN IF field.name = col.name /\ provided_instruction # <<>>
             THEN [col EXCEPT !.instructions = provided_instruction]
             ELSE col
        ELSE col

UpdatedColumns(cols, form) == [k \in 1..Len(cols) |-> UpdatedColumn(cols[k], form[k])]

----------------------------------------------------------------------------
(* classify_keywords_to_excel *)

\* headers = ['Original keyword'] + [col['name'] for col in self.columns]
Headers(cols) == <<"Original keyword">> \o [k \in 1..Len(cols) |-> cols[k].name]

\* a slice that runs one keyword into the next batch
BatchKeywordsOverlap(kws, idx, bsize) == Slice(kws, idx, idx + bsize + 1)

\* batch_keywords = self.keywords[i:i + batch_size]
BatchKeywords(kws, idx, bsize) == Slice(kws, idx, idx + bsize)

\* batch_num = (i // batch_size) + 1
BatchNum(idx, bsize) == (idx \div bsize) + 1

\* total_batches = (total_keywords + batch_size - 1) // batch_size
TotalBatches(total, bsize) == (total + bsize - 1) \div bsize

\* the next value of `for i in range(0, total_keywords, batch_size)`
NextIndex(idx, bsize) == idx + bsize

\* the values `i` takes in `for i in range(start, total_keywords, batch_size)`
RECURSIVE RangeFrom(_, _, _)
RangeFrom(start, total, bsize) ==
    IF start >= total THEN <<>>
    ELSE <<start>> \o RangeFrom(NextIndex(start, bsize), total, bsize)

\* batch_json = self.json_data.copy(); batch_json["keywords"] = batch_keywords
\* (the part of the prompt that varies; brands and the rule text are fixed)
Prompt(batch_keywords) ==
    [keywords |-> batch_keywords, columns |-> json_columns,
     count |-> Len(batch_keywords)]

\* a fallback row without the blank cells
FallbackRowNoBlanks(keyword, cols) == <<keyword>>

\* row_data = [keyword] + [''] * len(self.columns), once per keyword of the batch
FallbackRow(keyword, cols) == <<keyword>> \o [k \in 1..Len(cols) |-> <<>>]

FallbackRows(batch_keywords, cols) ==
    [k \in 1..Len(batch_keywords) |-> FallbackRow(batch_keywords[k], cols)]

\* rows put in front of the accumulated rows instead of behind them
ExtendPrepends(acc, rows) == rows \o acc

\* all_data.extend(batch_data) / all_data.append(row_data)
Extend(acc, rows) == acc \o rows

----------------------------------------------------------------------------
(* Texts the LLM may return for a batch *)

H == <<"H">>

X == <<"X">>

TableLine(cells) == <<PIPE>> \o Join(cells, <<PIPE>>) \o <<PIPE>>

BareLine(cells) == Join(cells, <<PIPE>>)

PaddedLine(cells) ==
    <<PIPE>> \o Join([k \in 1..Len(cells) |-> <<" ">> \o cells[k] \o <<" ">>], <<PIPE>>) \o <<PIPE>>

Repeat(x, n) == [k \in 1..n |-> x]

Upper1(kw) == IF kw = foo THEN <<"F", "O", "O">> ELSE IF kw = baz THEN <<"B", "a", "z">> ELSE kw

Reverse(s) == [k \in 1..Len(s) |-> s[Len(s) + 1 - k]]

Text(lines) == Join(lines, <<NL>>)

\* a table answering every keyword, with a separator row
WellFormed(batch, n) ==
    Text(<<TableLine(Repeat(H, n)), TableLine(Repeat(<<"-", "-", "-">>, n))>>
         \o [k \in 1..Len(batch) |-> TableLine(<<batch[k]>> \o Repeat(X, n - 1))])

\* prose without any table
NoTable == <<"S", "o", "r", "r", "y", ".">>

\* a table written without leading and trailing pipes
NoOuterPipes(batch, n) ==
    Text(<<BareLine(Repeat(H, n + 1))>>
         \o [k \in 1..Len(batch) |-> BareLine(<<batch[k]>> \o Repeat(X, n))])

\* a table with one column more than requested
ExtraColumn(batch, n) ==
    Text(<<TableLine(Repeat(H, n + 1))>>
         \o [k \in 1..Len(batch) |-> TableLine(<<batch[k]>> \o Repeat(X, n))])

\* rows in reverse order, other letter case, padded, first keyword echoed twice,
\* one row for a keyword that was not asked for, surrounded by whitespace
Shuffled(batch, n) ==
    <<" ", NL>> \o
    Text(<<PaddedLine(Repeat(H, n))>>
         \o [k \in 1..Len(batch) |->
               PaddedLine(<<Upper1(Reverse(batch)[k])>> \o Repeat(X, n - 1))]
         \o <<TableLine(<<bar>> \o Repeat(X, n - 1)),
              TableLine(<<batch[1]>> \o Repeat(<<>>, n - 1))>>)
    \o <<NL>>

Responses(batch, n) ==
    {WellFormed(batch, n), NoTable, NoOuterPipes(batch, n),
     ExtraColumn(batch, n), Shuffled(batch, n)}

----------------------------------------------------------------------------
(* The job: load_data, process_file's patch, the batch loop, the writer *)

\* no file is read: the request was handed to load_data as json_data
NoFile ==
    /\ df = [ext |-> "", names |-> <<>>, rows |-> <<>>]
    /\ brands = {}

NoParserRun ==
    /\ markdown_result = <<>>
    /\ expected_keywords = <<>>
    /\ expected_num_columns = 0
    /\ data_rows = <<>>

\* the state after agent.load_data(...): self.columns is json_data["columns"]
Init ==
    /\ pc = "loaded"
    /\ keywords \in SeqsUpTo(KeywordPool, MaxKeywords)
    /\ json_columns \in ColumnSpecs
    /\ columns = json_columns
    /\ batch_size \in 1..MaxBatchSize
    /\ progress_callback \in {"none", "supplied"}
    /\ i = 0
    /\ all_data = <<>>
    /\ llm_calls = <<>>
    /\ progress_log = <<>>
    /\ batch_log = <<>>
    /\ written = <<>>
    /\ NoParserRun
    /\ NoFile

\* process_file: agent.columns = updated_columns
PatchColumns ==
    /\ pc = "loaded"
    /\ \E form \in [1..Len(columns) -> FormFields] :
           columns' = UpdatedColumns(columns, form)
    /\ pc' = "patched"
    /\ UNCHANGED <<keywords, json_columns, batch_size, progress_callback, i,
                   all_data, llm_calls, progress_log, batch_log, written>>
    /\ UNCHANGED parserVars
    /\ UNCHANGED fileVars

\* classify_keywords_to_excel up to the loop
ClassifyStart ==
    /\ pc = "patched"
    /\ all_data' = <<>>
    /\ i' = 0
    /\ pc' = "loop"
    /\ UNCHANGED <<keywords, json_columns, columns, batch_size, progress_callback,
                   llm_calls, progress_log, batch_log, written>>
    /\ UNCHANGED parserVars
    /\ UNCHANGED fileVars

ProgressArgs ==
    <<BatchNum(i, batch_size), TotalBatches(Len(keywords), batch_size),
      Len(BatchKeywords(keywords, i, batch_size))>>

\* loop head: the observer (if any) returns, the prompt is built and sent
BatchDispatch ==
    /\ pc = "loop"
    /\ i < Len(keywords)
    /\ progress_log' = IF progress_callback = "supplied"
                       THEN Append(progress_log, ProgressArgs) ELSE progress_log
    /\ llm_calls' = Append(llm_calls,
                           [batch_num |-> BatchNum(i, batch_size),
                            prompt |-> Prompt(BatchKeywords(keywords, i, batch_size))])
    /\ pc' = "awaiting"
    /\ UNCHANGED <<keywords, json_columns, columns, batch_size, progress_callback, i,
                   all_data, batch_log, written>>
    /\ UNCHANGED parserVars
    /\ UNCHANGED fileVars

\* loop head: the observer raises; the call is outside the try block, so the
\* exception leaves classify_keywords_to_excel
ProgressCallbackRaises ==
    /\ pc = "loop"
    /\ i < Len(keywords)
    /\ progress_callback = "supplied"
    /\ progress_log' = Append(progress_log, ProgressArgs)
    /\ pc' = "aborted"
    /\ UNCHANGED <<keywords, json_columns, columns, batch_size, progress_callback, i,
                   all_data, llm_calls, batch_log, written>>
    /\ UNCHANGED parserVars
    /\ UNCHANGED fileVars

\* try block: generate_content returns, the text is stripped, parsed, appended
LLMReturns ==
    /\ pc = "awaiting"
    /\ \E text \in Responses(BatchKeywords(keywords, i, batch_size), Len(Headers(columns))) :
           LET batch_result == Strip(text)
               batch_data == ParseMarkdownToData(batch_result,
                                 BatchKeywords(keywords, i, batch_size),
                                 Len(Headers(columns)))
           IN  /\ markdown_result' = batch_result
               /\ expected_keywords' = BatchKeywords(keywords, i, batch_size)
               /\ expected_num_columns' = Len(Headers(columns))
               /\ data_rows' = batch_data
               /\ all_data' = Extend(all_data, batch_data)
               /\ batch_log' = Append(batch_log, batch_data)
    /\ i' = NextIndex(i, batch_size)
    /\ pc' = "loop"
    /\ UNCHANGED <<keywords, json_columns, columns, batch_size, progress_callback,
                   llm_calls, progress_log, written>>
    /\ UNCHANGED fileVars

\* except block: generate_content or response.text raised
LLMRaises ==
    /\ pc = "awaiting"
    /\ LET rows == FallbackRows(BatchKeywords(keywords, i, batch_size), columns)
       IN  /\ all_data' = Extend(all_data, rows)
           /\ batch_log' = Append(batch_log, rows)
    /\ i' = NextIndex(i, batch_size)
    /\ pc' = "loop"
    /\ UNCHANGED <<keywords, json_columns, columns, batch_size, progress_callback,
                   llm_calls, progress_log, written>>
    /\ UNCHANGED parserVars
    /\ UNCHANGED fileVars

\* after the loop: self._save_data_to_excel(headers, all_data, output_file) succeeds
SaveDataToExcel ==
    /\ pc = "loop"
    /\ i >= Len(keywords)
    /\ written' = all_data
    /\ pc' = "done"
    /\ UNCHANGED <<keywords, json_columns, columns, batch_size, progress_callback, i,
                   all_data, llm_calls, progress_log, batch_log>>
    /\ UNCHANGED parserVars
    /\ UNCHANGED fileVars

\* after the loop: _save_data_to_excel raises "Error creating Excel file"
SaveDataToExcelRaises ==
    /\ pc = "loop"
    /\ i >= Len(keywords)
    /\ written' = all_data
    /\ pc' = "write_error"
    /\ UNCHANGED <<keywords, json_columns, columns, batch_size, progress_callback, i,
                   all_data, llm_calls, progress_log, batch_log>>
    /\ UNCHANGED parserVars
    /\ UNCHANGED fileVars

Next ==
    \/ PatchColumns
    \/ ClassifyStart
    \/ BatchDispatch
    \/ ProgressCallbackRaises
    \/ LLMReturns
    \/ LLMRaises
    \/ SaveDataToExcel
    \/ SaveDataToExcelRaises

Spec == Init /\ [][Next]_vars

----------------------------------------------------------------------------
(* _parse_markdown_to_data called on its own: inputs and the call *)

Foo == <<"F", "o", "o">>

Hyphen == <<"-">>

RunningShoes == <<"R", "u", "n", "n", "i", "n", "g", " ", "S", "h", "o", "e", "s">>

\* "Header|A\n---|---\nfoo|X\nbar|Y|Z\nbaz|Q"
NoiseExample ==
    <<"H", "e", "a", "d", "e", "r", "|", "A", "\n", "-", "-", "-", "|", "-", "-", "-", "\n", "f", "o", "o", "|", "X", "\n", "b", "a", "r", "|", "Y", "|", "Z", "\n", "b", "a", "z", "|", "Q">>

\* "Keyword|Category\nrunning shoes|Footwear"
CaseExample ==
    <<"K", "e", "y", "w", "o", "r", "d", "|", "C", "a", "t", "e", "g", "o", "r", "y", "\n", "r", "u", "n", "n", "i", "n", "g", " ", "s", "h", "o", "e", "s", "|", "F", "o", "o", "t", "w", "e", "a", "r">>

JunkWrapped(cells) == <<"x", PIPE>> \o Join(cells, <<PIPE>>) \o <<PIPE, "y">>

SeparatorRow == TableLine(<<<<"-", "-", "-">>, <<"-", "-", "-">>>>)

HeaderLines ==
    {TableLine(<<H, H>>), BareLine(<<H, H>>), TableLine(<<H, H, H>>), PaddedLine(<<H, H>>)}

FirstCells == {foo, Foo, bar, Hyphen}

DataLines ==
    {SeparatorRow} \cup
    UNION {{TableLine(<<c, X>>), TableLine(<<c, <<>>>>), BareLine(<<c, X>>),
            JunkWrapped(<<c, <<>>>>), PaddedLine(<<c, X, X>>)} : c \in FirstCells}

ParserTexts ==
    {Text(<<h>> \o body) : h \in HeaderLines, body \in SeqsUpTo(DataLines, MaxDataLines)}

ParserInputs ==
    [text : ParserTexts, keywords : {<<foo, baz>>, <<Hyphen, foo>>}, num_columns : {2, 3}]
    \cup {[text |-> NoiseExample, keywords |-> <<foo, baz>>, num_columns |-> 2],
          [text |-> CaseExample, keywords |-> <<RunningShoes>>, num_columns |-> 2]}

NoJob ==
    /\ keywords = <<>>
    /\ json_columns = <<>>
    /\ columns = <<>>
    /\ batch_size = 1
    /\ progress_callback = "none"
    /\ i = 0
    /\ all_data = <<>>
    /\ llm_calls = <<>>
    /\ progress_log = <<>>
    /\ batch_log = <<>>
    /\ written = <<>>

ParserInit ==
    /\ pc = "input"
    /\ \E input \in ParserInputs :
           /\ markdown_result = input.text
           /\ expected_keywords = input.keywords
           /\ expected_num_columns = input.num_columns
    /\ data_rows = <<>>
    /\ NoJob
    /\ NoFile

\* one call of _parse_markdown_to_data
ParseCall ==
    /\ pc = "input"
    /\ data_rows' = ParseMarkdownToData(markdown_result, expected_keywords,
                                        expected_num_columns)
    /\ pc' = "parsed"
    /\ UNCHANGED <<markdown_result, expected_keywords, expected_num_columns>>
    /\ UNCHANGED engineVars
    /\ UNCHANGED fileVars

ParserNext == ParseCall

ParserSpec == ParserInit /\ [][ParserNext]_vars

----------------------------------------------------------------------------
(* convert_excel_to_json and load_data(file_path=...) *)

\* a cell of the table: missing (NaN/None), text, or a number
NaN == [kind |-> "nan", str |-> <<>>, num |-> 0]

StrCell(t) == [kind |-> "str", str |-> t, num |-> 0]

NumCell(n) == [kind |-> "num", str |-> <<>>, num |-> n]

Digits == <<"0", "1", "2", "3", "4", "5", "6", "7", "8", "9">>

\* str(n) for an integer n >= 0
RECURSIVE IntToStr(_)
IntToStr(n) ==
    IF n < 10 THEN <<Digits[n + 1]>>
    ELSE IntToStr(n \div 10) \o <<Digits[(n % 10) + 1]>>

\* .astype(str) on one value that is not missing
AsTypeStr(cell) == IF cell.kind = "num" THEN IntToStr(cell.num) ELSE cell.str

\* df.dropna(how='all'): rows whose cells are all missing are dropped
DropNaAll(rows) ==
    SelectSeq(rows, LAMBDA row : \E c \in 1..Len(row) : row[c] # NaN)

\* df[col].dropna().astype(str).tolist()
ColumnStrings(rows, c) ==
    LET present == SelectSeq([r \in 1..Len(rows) |-> rows[r][c]],
                             LAMBDA cell : cell # NaN)
    IN  [k \in 1..Len(present) |-> AsTypeStr(present[k])]

\* whitespace-only values count as values
StripAllKeepBlank(values) == [k \in 1..Len(values) |-> Strip(values[k])]

\* [val.strip() for val in values if val.strip()]
StripNonEmpty(values) ==
    LET stripped == [k \in 1..Len(values) |-> Strip(values[k])]
    IN  SelectSeq(stripped, LAMBDA v : v # <<>>)

\* set(values)
ToSet(values) == {values[k] : k \in 1..Len(values)}

\* one iteration of `for col in columns[2:]`
ColumnData(name, rows, c) ==
    LET unique_values == ToSet(StripNonEmpty(ColumnStrings(rows, c)))
    IN  IF unique_values # {}
        THEN [name |-> name, tags |-> unique_values]
        ELSE [name |-> name, instructions |-> <<>>]

SupportedExtensions == {".csv", ".xlsx", ".xls"}

\* the conditions under which convert_excel_to_json raises
ConvertRaises(frame) ==
    \/ frame.ext \notin SupportedExtensions
    \/ Len(frame.names) < 2

\* the dict convert_excel_to_json returns
ConvertExcelToJson(frame) ==
    LET rows == DropNaAll(frame.rows)
    IN  [keywords |-> StripNonEmpty(ColumnStrings(rows, 1)),
         brands |-> ToSet(StripNonEmpty(ColumnStrings(rows, 2))),
         columns |-> [k \in 1..(Len(frame.names) - 2) |->
                        ColumnData(frame.names[k + 2], rows, k + 2)]]

(* Tables a file may hold *)

ColumnNames == <<"Keyword", "Brand", "Type", "Intent">>

Blank == <<" ">>

PaddedX == <<" ", "X", " ">>

Y == <<"Y">>

FullRows ==
    {<<kb[1], kb[2], c1, c2>> :
        kb \in {<<StrCell(foo), StrCell(<<"B">>)>>, <<NaN, NaN>>},
        c1 \in {NaN, StrCell(Blank), StrCell(PaddedX), StrCell(X), NumCell(17)},
        c2 \in {NaN, StrCell(<<>>), StrCell(Y)}}

Frames ==
    {[ext |-> e, names |-> SubSeq(ColumnNames, 1, n),
      rows |-> [r \in 1..Len(full) |-> SubSeq(full[r], 1, n)]] :
        e \in {".csv", ".txt"}, n \in 1..Len(ColumnNames),
        full \in SeqsUpTo(FullRows, MaxRows)}

LoaderInit ==
    /\ pc = "file"
    /\ df \in Frames
    /\ brands = {}
    /\ NoJob
    /\ NoParserRun

\* load_data(file_path=...): convert_excel_to_json returns, the request is stored
LoadData ==
    /\ pc = "file"
    /\ ~ConvertRaises(df)
    /\ LET json_data == ConvertExcelToJson(df)
       IN  /\ keywords' = json_data.keywords
           /\ brands' = json_data.brands
           /\ json_columns' = json_data.columns
           /\ columns' = json_data.columns
    /\ pc' = "loaded"
    /\ UNCHANGED <<df, batch_size, progress_callback, i, all_data, llm_calls,
                   progress_log, batch_log, written>>
    /\ UNCHANGED parserVars

\* convert_excel_to_json raises "Error processing file: ..."; nothing is stored
LoadDataRaises ==
    /\ pc = "file"
    /\ ConvertRaises(df)
    /\ pc' = "load_error"
    /\ UNCHANGED engineVars
    /\ UNCHANGED parserVars
    /\ UNCHANGED fileVars

LoaderNext == LoadData \/ LoadDataRaises

LoaderSpec == LoaderInit /\ [][LoaderNext]_vars

\* the trimmed non-blank values of the cells of column c of the table
TrimmedValues(frame, c) ==
    {Strip(AsTypeStr(frame.rows[r][c])) :
        r \in {q \in 1..Len(frame.rows) : frame.rows[q][c] # NaN}} \ {<<>>}

\* C11: every column of the file from the third on gives one column spec, in
\* the file's column order and under the file's column name: a column with a
\* cell that is non-blank after trimming becomes a tagged column whose tags
\* are exactly the distinct trimmed non-blank values, a column without one
\* becomes an instruction-only column with empty instructions, and a column
\* spec has exactly one of the keys tags and instructions.
C11_ColumnClassification ==
    pc = "loaded" =>
        /\ Len(columns) = Len(df.names) - 2
        /\ \A k \in 1..Len(columns) :
             /\ columns[k].name = df.names[k + 2]
             /\ ("tags" \in DOMAIN columns[k]) # ("instructions" \in DOMAIN columns[k])
             /\ TrimmedValues(df, k + 2) # {} =>
                  /\ "tags" \in DOMAIN columns[k]
                  /\ columns[k].tags = TrimmedValues(df, k + 2)
             /\ TrimmedValues(df, k + 2) = {} =>
                  /\ "instructions" \in DOMAIN columns[k]
                  /\ columns[k].instructions = <<>>

\* C11 witness: a loaded file whose third column holds " X " and a blank cell
\* and became the tagged column {X}, and whose fourth column holds only
\* missing and empty cells and became an instruction-only column
C11_Witness ==
    /\ pc = "loaded"
    /\ Len(columns) = 2
    /\ Len(df.rows) = 2
    /\ df.rows[1][3] = StrCell(PaddedX)
    /\ df.rows[2][3] = StrCell(Blank)
    /\ df.rows[1][4] = StrCell(<<>>)
    /\ df.rows[2][4] = NaN
    /\ columns[1] = [name |-> "Type", tags |-> {X}]
    /\ columns[2] = [name |-> "Intent", instructions |-> <<>>]

----------------------------------------------------------------------------
(* Properties of the job *)

RECURSIVE Concat(_)
Concat(seqs) == IF seqs = <<>> THEN <<>> ELSE Head(seqs) \o Concat(Tail(seqs))

\* ceil(t / b), defined by its bounds rather than by the code's formula
CeilDiv(t, b) == CHOOSE n \in 0..t : n * b >= t /\ (n - 1) * b < t

Ended == pc \in {"done", "write_error", "aborted"}

Completed == pc \in {"done", "write_error"}

\* C1: a batch of N keywords whose LLM call raises adds exactly N rows to the
\* accumulated result, one per keyword of the batch in batch order, each the
\* keyword followed by one empty string per column; the rows already
\* accumulated stay, the job is not aborted and the loop goes on to the batch
\* after it.
C1_FallbackCompleteness ==
    [][LLMRaises =>
        LET n == Min(batch_size, Len(keywords) - i)
        IN  /\ Len(all_data') = Len(all_data) + n
            /\ SubSeq(all_data', 1, Len(all_data)) = all_data
            /\ \A k \in 1..n :
                 LET row == all_data'[Len(all_data) + k]
                 IN  /\ Len(row) = 1 + Len(columns)
                     /\ row[1] = keywords[i + k]
                     /\ \A c \in 2..Len(row) : row[c] = <<>>
            /\ pc' = "loop"
            /\ i' = i + batch_size]_vars

\* C1 witness: a batch of two keywords fell back to two blank rows for a
\* request with one column, and a later batch was processed after it
C1_Witness ==
    /\ Len(batch_log) >= 2
    /\ Len(columns) = 1
    /\ batch_size = 2
    /\ batch_log[1] = <<<<keywords[1], <<>>>>, <<keywords[2], <<>>>>>>

\* C2 (as claimed): after the job has finished, every input keyword is the
\* first cell (up to case and surrounding blanks) of at least one output row,
\* whatever texts the LLM returned.
C2_EveryKeywordInOutput ==
    pc = "done" =>
        \A k \in 1..Len(keywords) :
            \E r \in 1..Len(written) :
                Lower(Strip(written[r][1])) = Lower(Strip(keywords[k]))

\* C3: the keywords are sent in exactly ceil(T/B) contiguous batches, each of
\* size 1..B and all of size B except possibly the last, whose concatenation
\* in batch order is the keyword sequence; T=450, B=200 gives sizes 200,200,50.
C3_Batching ==
    /\ \A k \in 1..Len(llm_calls) :
         /\ Len(llm_calls[k].prompt.keywords) \in 1..batch_size
         /\ k < Len(llm_calls) => Len(llm_calls[k].prompt.keywords) = batch_size
    /\ Concat([k \in 1..Len(llm_calls) |-> llm_calls[k].prompt.keywords])
         = SubSeq(keywords, 1, Len(Concat([k \in 1..Len(llm_calls) |-> llm_calls[k].prompt.keywords])))
    /\ Completed =>
         /\ Len(llm_calls) = CeilDiv(Len(keywords), batch_size)
         /\ Concat([k \in 1..Len(llm_calls) |-> llm_calls[k].prompt.keywords]) = keywords
         /\ LET many == [n \in 1..450 |-> foo]
                starts == RangeFrom(0, 450, 200)
            IN  [k \in 1..Len(starts) |-> Len(BatchKeywords(many, starts[k], 200))]
                  = <<200, 200, 50>>

\* C3 witness: three keywords with batch size two were sent as batches of
\* sizes 2 and 1
C3_Witness ==
    /\ pc = "done"
    /\ Len(keywords) = 3
    /\ batch_size = 2
    /\ Len(llm_calls) = 2
    /\ Len(llm_calls[2].prompt.keywords) = 1

\* C5 (as claimed): every accumulated row has exactly len(headers) cells,
\* whatever the LLM returned.
C5_RowCardinality ==
    \A r \in 1..Len(all_data) : Len(all_data[r]) = Len(Headers(columns))

\* C6 (as claimed): the column spec in every prompt sent is the patched one:
\* instruction text supplied through the form is in it, tagged columns and
\* the column order are those of the loaded request.
C6_PromptCarriesPatchedInstructions ==
    \A k \in 1..Len(llm_calls) : llm_calls[k].prompt.columns = columns

\* C7: batches are processed one after the other in increasing batch index:
\* the k-th LLM call is the one call for batch k (no batch is called twice,
\* also after a fallback), a call is outstanding only while its batch's rows
\* are not yet appended, and the accumulated rows are the per-batch rows
\* concatenated in batch order.
C7_Sequential ==
    /\ \A k \in 1..Len(llm_calls) :
         /\ llm_calls[k].batch_num = k
         /\ llm_calls[k].prompt.keywords
              = SubSeq(keywords, (k - 1) * batch_size + 1,
                       Min(k * batch_size, Len(keywords)))
    /\ Len(llm_calls) = Len(batch_log) + (IF pc = "awaiting" THEN 1 ELSE 0)
    /\ all_data = Concat(batch_log)
    /\ Completed => Len(llm_calls) = CeilDiv(Len(keywords), batch_size)

\* C7 witness: a finished job of three batches, the first fell back, the
\* second was parsed, and the call of the third was made after both
C7_Witness ==
    /\ pc = "done"
    /\ Len(llm_calls) = 3
    /\ Len(columns) = 1
    /\ batch_log[1] = <<<<keywords[1], <<>>>>>>
    /\ batch_log[2] = <<<<keywords[2], X>>>>
    /\ all_data = batch_log[1] \o batch_log[2] \o batch_log[3]

\* C8 (as claimed): the observer is called once per dispatched batch with
\* (1-based batch index, number of batches, size of the batch), and whatever
\* it does, a job that has ended has made the LLM call of every batch and
\* appended every batch's rows, as it does without an observer.
C8_ObserverIsObservational ==
    /\ progress_callback = "none" => progress_log = <<>>
    /\ \A k \in 1..Len(progress_log) :
         progress_log[k] = <<k, CeilDiv(Len(keywords), batch_size),
                             Min(batch_size, Len(keywords) - (k - 1) * batch_size)>>
    /\ Ended =>
         /\ Len(llm_calls) = CeilDiv(Len(keywords), batch_size)
         /\ Len(batch_log) = CeilDiv(Len(keywords), batch_size)

----------------------------------------------------------------------------
(* Properties of the parser *)

\* the cells of a table line when only the empty pieces that a leading or a
\* trailing pipe produces are dropped, each cell trimmed
EdgeTrimmedCells(line) ==
    LET parts == Split(line, PIPE)
        noLead == IF parts[1] = <<>> THEN Tail(parts) ELSE parts
        noTrail == IF noLead # <<>> /\ noLead[Len(noLead)] = <<>>
                   THEN SubSeq(noLead, 1, Len(noLead) - 1) ELSE noLead
    IN  [k \in 1..Len(noTrail) |-> Strip(noTrail[k])]

\* C4 (as claimed): splitting a table line drops only the empty cells of a
\* leading or trailing pipe, and "Header|A\n---|---\nfoo|X\nbar|Y|Z\nbaz|Q"
\* parsed for the keywords foo, baz and two columns gives [foo,X], [baz,Q].
C4_EdgeCellsOnly ==
    pc = "parsed" =>
        /\ \A k \in 1..Len(FilteredLines(markdown_result)) :
             LineCells(FilteredLines(markdown_result)[k])
               = EdgeTrimmedCells(FilteredLines(markdown_result)[k])
        /\ (/\ markdown_result = NoiseExample
            /\ expected_keywords = <<foo, baz>>
            /\ expected_num_columns = 2)
           => data_rows = <<<<foo, X>>, <<baz, <<"Q">>>>>>

\* C9 (as claimed): a row with as many cells as the header is accepted if and
\* only if its trimmed, lower-cased first cell is the trimmed, lower-cased form
\* of an expected keyword, and for the expected keyword "Running Shoes" the
\* row "running shoes|Footwear" is accepted.
C9_CaseInsensitiveMatch ==
    pc = "parsed" =>
        /\ LET lines == FilteredLines(markdown_result)
           IN  \A k \in 2..Len(lines) :
                 LET cells == LineCells(lines[k])
                 IN  Len(cells) = HeaderCount(lines, expected_num_columns) =>
                       ((\E r \in 1..Len(data_rows) : data_rows[r] = cells)
                          <=> \E e \in 1..Len(expected_keywords) :
                                Lower(Strip(cells[1]))
                                  = Lower(Strip(expected_keywords[e])))
        /\ (/\ markdown_result = CaseExample
            /\ expected_keywords = <<RunningShoes>>)
           => data_rows = <<<<Lower(RunningShoes),
                              <<"F", "o", "o", "t", "w", "e", "a", "r">>>>>>

\* the response's header line followed by one table line per row
Serialize(text, rows) ==
    LET lines == FilteredLines(text)
    IN  Text((IF lines = <<>> THEN <<>> ELSE <<lines[1]>>)
             \o [k \in 1..Len(rows) |-> TableLine(rows[k])])

\* C10 (as claimed): writing the header and the accepted rows back as a
\* markdown table and parsing that with the same expected keywords and column
\* count gives the same rows again.
C10_ReparseIdempotent ==
    pc = "parsed" =>
        ParseMarkdownToData(Serialize(markdown_result, data_rows),
                            expected_keywords, expected_num_columns) = data_rows

----------------------------------------------------------------------------
(* Order and multiplicity of the parsed rows *)

\* the cells of the lines after the header, in the order of the lines in the
\* response, restricted to the lines that pass the row tests; a line that
\* occurs twice occurs twice
AcceptedCells(text, exp_keywords, exp_num_columns) ==
    LET lines == FilteredLines(text)
        rowCells == [k \in 1..(Len(lines) - 1) |-> LineCells(lines[k + 1])]
    IN  SelectSeq(rowCells,
                  LAMBDA cells :
                      /\ cells # <<>>
                      /\ Len(cells) = HeaderCount(lines, exp_num_columns)
                      /\ \E e \in 1..Len(exp_keywords) :
                             Lower(Strip(cells[1])) = Lower(Strip(exp_keywords[e])))

\* C12: the rows a parse returns are the cells of the accepted lines, one row
\* per accepted line (also when several lines carry the same keyword), in the
\* order of the lines in the response, and all of them are appended, in that
\* order, to the accumulated rows.
C12_ResponseOrderNoDedup ==
    [][LLMReturns =>
        /\ data_rows' = AcceptedCells(markdown_result', expected_keywords',
                                      expected_num_columns')
        /\ Len(all_data') = Len(all_data) + Len(data_rows')
        /\ SubSeq(all_data', 1, Len(all_data)) = all_data
        /\ SubSeq(all_data', Len(all_data) + 1, Len(all_data')) = data_rows']_vars

\* C12 witness: the response to the batch foo, baz had the row of baz before
\* the rows of foo and two rows for foo; the three rows were returned in that
\* order and are the last three accumulated rows
C12_Witness ==
    /\ pc = "loop"
    /\ expected_keywords = <<foo, baz>>
    /\ Len(data_rows) = 3
    /\ Lower(data_rows[1][1]) = baz
    /\ Lower(data_rows[2][1]) = foo
    /\ Lower(data_rows[3][1]) = foo
    /\ data_rows[2] # data_rows[3]
    /\ Len(all_data) >= 3
    /\ SubSeq(all_data, Len(all_data) - 2, Len(all_data)) = data_rows

====
